---- MODULE Spec2Model ----
(***************************************************************************)
(* The backtest simulation engine of jesse                                 *)
(* (src/jesse/modes/backtest_mode/__init__.py): run, _load_candles,        *)
(* simulator, _save_daily_portfolio_balance and                            *)
(* _simulate_price_change_effect, as a state machine.                      *)
(*                                                                         *)
(* A candle is the tuple <<timestamp, open, close, high, low, volume>>     *)
(* (the numpy row of the source, index + 1).  Prices, quantities and       *)
(* balances are integers; the exchange fee rate of the configuration is 0. *)
(* The candle store, the order book, the ledger, split_candle and the      *)
(* strategies are collaborators whose code is not part of the two source   *)
(* files; they are modelled from the specification (sections 4.1 - 4.6).   *)
(***************************************************************************)
EXTENDS Integers, Sequences, FiniteSets, TLC

VARIABLES
    flat,                \* TRUE: the long flat-market input with empty strategies
    order_limit,         \* the most orders the strategies of the run submit
    length_limit,        \* the most candles of an input whose strategies trade
    dna,                 \* r.dna of every route, None when the route has none
    hyper_parameters,    \* parameter and local of simulator (line 140)
    pc,                  \* position of simulator() in its code
    i,                   \* index of the for loop of simulator (line 175)
    j,                   \* position of the loop over candles (line 180)
    r,                   \* position of a loop over router.routes
    candles,             \* candles[j]: the rows of the input read so far
    time,                \* store.app.time
    starting_time,       \* store.app.starting_time
    store_candles,       \* store.candles: [pair][timeframe] -> series
    orders,              \* store.orders: [pair] -> orders in insertion order
    positions,           \* store.positions
    balance,             \* store.exchanges: [exchange] -> balance
    completed_trades,    \* store.completed_trades
    daily_balance,       \* store.app.daily_balance
    strategy,            \* r.strategy of every route
    current_temp_candle, \* local of _simulate_price_change_effect
    executed_order,      \* local of _simulate_price_change_effect
    iterations,          \* while-iterations of the current matching
    arrival_active,      \* orders that were active when the real candle arrived
    events,              \* what happened so far in the current minute
    runs,                \* completed invocations of simulator on this store
    previous,            \* the outputs of the previous invocation
    run_pc,              \* position of run() in its code
    start_date,          \* argument of run: a date, as a day number
    finish_date,         \* argument of run: a date, as a day number
    routes_valid,        \* whether validate_routes(router) accepts the routes
    preloaded,           \* whether run was given the candles argument
    database,            \* the Candle table: for every pair, what it holds
    cache,               \* the candle cache: for every pair, the cached value
    loaded,              \* for every pair, the candles_tuple that was loaded
    cache_set,           \* the pairs for which cache.set_value was called
    error,               \* the exception run raised, "" when none
    key                  \* position of the loops of lines 98-99

vars == <<flat, order_limit, length_limit, dna, hyper_parameters, pc, i, j, r, candles, time, starting_time, store_candles, orders,
          positions, balance, completed_trades, daily_balance, strategy,
          current_temp_candle, executed_order, iterations, arrival_active,
          events, runs, previous, run_pc, start_date, finish_date, routes_valid,
          preloaded, database, cache, loaded, cache_set, error, key>>

\* the variables of run() and _load_candles
loader == <<run_pc, start_date, finish_date, routes_valid, preloaded, database, cache,
            loaded, cache_set, error, key>>

(***************************************************************************)
(* Bounds of the model.                                                    *)
(***************************************************************************)
\* the candles of a run whose strategies trade
MaxMinutes == 3
\* the candles of a run whose strategies submit nothing
MaxFlatMinutes == 1441
\* the orders the strategies submit in a run, over all pairs
MaxOrders == 2
\* the DNA strings a route may carry
MaxDna == 3
\* the candles before start_date that load_required_candles returns
MaxRequired == 1

(***************************************************************************)
(* Configuration: two (exchange, symbol) pairs on two exchanges, one route *)
(* on each.                                                                *)
(***************************************************************************)
Pairs == 1..2

Exchanges == 1..2

ExchangeOf(p) == p

Routes == << [pair |-> 1, timeframe |-> "1m"], [pair |-> 2, timeframe |-> "3m"] >>

ConsideringTimeframes == <<"1m", "3m", "15m">>

Timeframes == {"1m", "3m", "15m"}

StartingBalance == 100

\* Python's None: no DNA on a route, no hyper_parameters argument, no hp
\* attribute injected into a strategy
None == 0

\* a hyper_parameters argument given by the caller of simulator
ExplicitHp == 1

\* jh.dna_to_hp(StrategyClass.hyper_parameters(), dna): the hyperparameters
\* that the DNA string number d decodes to
dna_to_hp(d) == 10 * d

MinuteMs == 60000

MinutesPerDay == 1440

timeframe_to_one_minutes(tf) ==
    CASE tf = "1m" -> 1
      [] tf = "3m" -> 3
      [] tf = "15m" -> 15

(***************************************************************************)
(* Candles.  An input row is the <<open, close, high, low, volume>> of the  *)
(* one-minute candle of every pair.                                        *)
(***************************************************************************)
Ts(c) == c[1]
Open(c) == c[2]
Close(c) == c[3]
High(c) == c[4]
Low(c) == c[5]
Volume(c) == c[6]

Max(a, b) == IF a >= b THEN a ELSE b
Min(a, b) == IF a <= b THEN a ELSE b
AbsVal(x) == IF x < 0 THEN -x ELSE x

InputRows ==
    { << <<3, 4, 6, 1, 4>>, <<4, 3, 6, 1, 4>> >>,
      << <<4, 3, 6, 1, 4>>, <<3, 4, 4, 3, 2>> >>,
      << <<3, 4, 4, 3, 2>>, <<3, 4, 6, 1, 4>> >> }

FlatShape == <<3, 3, 3, 3, 1>>

is_bullish(c) == Close(c) >= Open(c)

candle_includes_price(c, price) == price >= Low(c) /\ price <= High(c)

\* The volume of the earlier piece: pro rata along the assumed price path.
StorableVolume(c, price) ==
    LET o == Open(c) h == High(c) l == Low(c) cl == Close(c)
        total == IF is_bullish(c) THEN (o - l) + (h - l) + (h - cl)
                                  ELSE (h - o) + (h - l) + (cl - l)
        done  == IF is_bullish(c) THEN (o - l) + (price - l)
                                  ELSE (h - o) + (h - price)
    IN IF total = 0 THEN Volume(c) ELSE (Volume(c) * done) \div total

\* split_candle(candle, price) = <<storable, remainder>>: the price path is
\* open -> low -> price -> high -> close for a bullish candle and
\* open -> high -> price -> low -> close for a bearish one.
split_candle(c, price) ==
    LET v1 == StorableVolume(c, price)
    IN IF is_bullish(c)
       THEN << <<Ts(c), Open(c), price, Max(Open(c), price), Low(c), v1>>,
               <<Ts(c), price, Close(c), High(c), Min(price, Close(c)), Volume(c) - v1>> >>
       ELSE << <<Ts(c), Open(c), price, High(c), Min(Open(c), price), v1>>,
               <<Ts(c), price, Close(c), Max(price, Close(c)), Low(c), Volume(c) - v1>> >>

\* store.candles.add_candle on one series: append a newer candle, overwrite the
\* tail when the timestamp is the tail's, drop a candle older than the tail.
add_candle(series, c) ==
    IF Len(series) = 0 THEN <<c>>
    ELSE IF Ts(c) > Ts(series[Len(series)]) THEN Append(series, c)
    ELSE IF Ts(c) = Ts(series[Len(series)]) THEN [series EXCEPT ![Len(series)] = c]
    ELSE series

RECURSIVE SumSeq(_)
SumSeq(s) == IF s = <<>> THEN 0 ELSE Head(s) + SumSeq(Tail(s))

RECURSIVE MaxHigh(_)
MaxHigh(s) == IF Len(s) = 1 THEN High(s[1]) ELSE Max(High(Head(s)), MaxHigh(Tail(s)))

RECURSIVE MinLow(_)
MinLow(s) == IF Len(s) = 1 THEN Low(s[1]) ELSE Min(Low(Head(s)), MinLow(Tail(s)))

generate_candle_from_one_minutes(tf, arr) ==
    << Ts(arr[1]), Open(arr[1]), Close(arr[Len(arr)]), MaxHigh(arr), MinLow(arr),
       SumSeq([k \in 1..Len(arr) |-> Volume(arr[k])]) >>

\* arr[lo:hi] of Python for 0 <= lo <= hi
Slice(arr, lo, hi) == SubSeq(arr, lo + 1, Min(hi, Len(arr)))

(***************************************************************************)
(* Orders, positions and balances.  The four stores that a fill changes    *)
(* are threaded through the operators as one record L.                     *)
(***************************************************************************)
is_active(o) == o.status = "active"

is_open(pos) == pos.qty # 0

PositionValue(pos) == AbsVal(pos.qty) * pos.current_price

Ledger == [orders |-> orders, positions |-> positions, balance |-> balance,
           completed_trades |-> completed_trades]

\* order.execute(): the order becomes executed and the fill reaches the
\* position, the exchange balance and, when the position closes, the trades.
ExecuteOrder(L, p, k) ==
    LET o      == L.orders[p][k]
        signed == IF o.side = "buy" THEN o.qty ELSE -o.qty
        cash   == -(signed * o.price)
        pos    == L.positions[p]
        qty2   == pos.qty + signed
        closes == pos.qty # 0 /\ qty2 = 0
    IN [orders |-> [L.orders EXCEPT ![p][k].status = "executed",
                                    ![p][k].fills = @ + 1],
        positions |-> [L.positions EXCEPT ![p].qty = qty2,
                                          ![p].flow = IF qty2 = 0 THEN 0 ELSE @ + cash],
        balance |-> [L.balance EXCEPT ![ExchangeOf(p)] = @ + cash],
        completed_trades |->
            IF closes
            THEN Append(L.completed_trades,
                        [pair |-> p, type |-> IF pos.qty > 0 THEN "long" ELSE "short",
                         pnl |-> pos.flow + cash])
            ELSE L.completed_trades]

\* What a strategy may ask for in a callback: nothing, a limit/stop order at a
\* price, a market order at the current price, or the cancellation of its first
\* active order.
Requests ==
    {<<"none">>, <<"cancel">>}
      \cup { <<"limit", "buy", 2>>, <<"limit", "sell", 5>>, <<"market", "buy">> }

FirstActive(os) ==
    IF \E k \in 1..Len(os) : is_active(os[k])
    THEN CHOOSE k \in 1..Len(os) : is_active(os[k]) /\ \A m \in 1..(k - 1) : ~is_active(os[m])
    ELSE 0

\* The orders submitted so far, over all pairs.
RECURSIVE CountOrders(_, _)
CountOrders(L, p) == IF p = 0 THEN 0 ELSE Len(L.orders[p]) + CountOrders(L, p - 1)

SubmittedOrders(L) == CountOrders(L, Cardinality(Pairs))

CanRequest(L, p, req) ==
    CASE req[1] = "none" -> TRUE
      [] req[1] = "cancel" -> FirstActive(L.orders[p]) # 0
      [] OTHER -> SubmittedOrders(L) < order_limit

Submit(L, p, req) ==
    CASE req[1] = "none" -> L
      [] req[1] = "cancel" ->
           [L EXCEPT !.orders[p][FirstActive(L.orders[p])].status = "canceled"]
      [] req[1] = "limit" ->
           [L EXCEPT !.orders[p] = Append(@, [type |-> "limit", side |-> req[2],
                                               price |-> req[3], qty |-> 1,
                                               status |-> "active", fills |-> 0])]
      [] req[1] = "market" ->
           [L EXCEPT !.orders[p] = Append(@, [type |-> "market", side |-> req[2],
                                               price |-> L.positions[p].current_price,
                                               qty |-> 1,
                                               status |-> "active", fills |-> 0])]

\* The requests open to the strategy of pair p in _execute().
Decisions(L, p) ==
    IF flat THEN {<<"none">>} ELSE {req \in Requests : CanRequest(L, p, req)}

\* The requests open to the strategy of pair p in a fill callback.
Callbacks(L, p) == {req \in Decisions(L, p) : req[1] # "cancel"}

(***************************************************************************)
(* _save_daily_portfolio_balance (lines 248-265): the list `balances` and  *)
(* its sum.                                                                *)
(***************************************************************************)
ActiveOrderValues(os) ==
    LET act == SelectSeq(os, is_active)
    IN [k \in 1..Len(act) |-> AbsVal(act[k].qty * act[k].price)]

\* lines 256-263 with the active orders counted for an open position too
PositionBalancesAllOrders(p) ==
    (IF is_open(positions[p]) THEN << PositionValue(positions[p]) >> ELSE <<>>)
        \o ActiveOrderValues(orders[p])

PositionBalances(p) ==
    IF is_open(positions[p]) THEN << PositionValue(positions[p]) >>
    ELSE ActiveOrderValues(orders[p])

RECURSIVE AllPositionBalances(_)
AllPositionBalances(p) ==
    IF p > Cardinality(Pairs) THEN <<>>
    ELSE PositionBalances(p) \o AllPositionBalances(p + 1)

ExchangeBalances == [e \in 1..Cardinality(Exchanges) |-> balance[e]]

save_daily_portfolio_balance ==
    Append(daily_balance, SumSeq(ExchangeBalances \o AllPositionBalances(1)))

(***************************************************************************)
(* simulator (lines 140-245).                                              *)
(***************************************************************************)
NoCandle == <<>>

\* The store after construction, before simulator is entered.
InitStore ==
    /\ pc = "start"
    /\ i = 0
    /\ j = 1
    /\ r = 1
    /\ candles = [p \in Pairs |-> <<>>]
    /\ time = 0
    /\ starting_time = 0
    /\ store_candles = [p \in Pairs |-> [tf \in Timeframes |-> <<>>]]
    /\ orders = [p \in Pairs |-> <<>>]
    /\ positions = [p \in Pairs |-> [qty |-> 0, current_price |-> 0, flow |-> 0]]
    /\ balance = [e \in Exchanges |-> StartingBalance]
    /\ completed_trades = <<>>
    /\ daily_balance = <<>>
    /\ strategy = [k \in 1..Len(Routes) |->
                      [state |-> "none", executions |-> 0, inits |-> 0, terminations |-> 0,
                       hp |-> None]]
    /\ current_temp_candle = NoCandle
    /\ executed_order = FALSE
    /\ iterations = 0
    /\ arrival_active = [p \in Pairs |-> {}]
    /\ events = <<>>
    /\ runs = 0
    /\ previous = [completed_trades |-> <<>>, daily_balance |-> <<>>]

\* simulator is entered with candles that meet the loader's contract.
InitSimulator ==
    /\ InitStore
    /\ run_pc = "simulator"
    /\ start_date = 0
    /\ finish_date = 1
    /\ routes_valid = TRUE
    /\ preloaded = TRUE
    /\ database = [p \in Pairs |-> [kind |-> "full", at |-> 0]]
    /\ cache = [p \in Pairs |-> [kind |-> "none", at |-> 0]]
    /\ loaded = [p \in Pairs |-> [kind |-> "none", at |-> 0]]
    /\ cache_set = {}
    /\ error = ""
    /\ key = 1

\* run calls simulator(candles) (line 58) and the routes carry no DNA
NoDna ==
    /\ dna = [k \in 1..Len(Routes) |-> None]
    /\ hyper_parameters = None

Init ==
    /\ InitSimulator
    /\ NoDna
    /\ flat \in BOOLEAN
    /\ order_limit = MaxOrders
    /\ length_limit = MaxMinutes

\* The timestamp of row k (zero-based) of every input series: the loader's
\* contract (one candle per minute from the start).
RowTs(k) == k * MinuteMs

\* lines 141-146
Begin ==
    /\ pc = "start"
    /\ starting_time' = RowTs(0)
    /\ pc' = "init_strategies"
    /\ r' = 1
    /\ UNCHANGED <<flat, i, j, candles, time, store_candles, orders, positions, balance,
                   completed_trades, daily_balance, strategy, current_temp_candle,
                   executed_order, iterations, arrival_active, events, runs>>
    /\ UNCHANGED <<previous, loader, order_limit, length_limit, dna, hyper_parameters>>

\* lines 153-154: the value of hyper_parameters after the DNA test of route k
Decode(k, hp) == IF dna[k] # None /\ hp = None THEN dna_to_hp(dna[k]) ELSE hp

\* lines 149-169, one route: the DNA of the route is decoded into
\* hyper_parameters when that is still None, the strategy is constructed and
\* initialised, and hyper_parameters, when not None, becomes its hp.
InitStrategy ==
    /\ pc = "init_strategies"
    /\ hyper_parameters' = Decode(r, hyper_parameters)
    /\ strategy' = [strategy EXCEPT ![r] = [state |-> "ready", executions |-> 0,
                                             inits |-> @.inits + 1,
                                             terminations |-> @.terminations,
                                             hp |-> hyper_parameters']]
    /\ IF r = Len(Routes)
       THEN pc' = "initial_balance" /\ r' = 1
       ELSE pc' = pc /\ r' = r + 1
    /\ UNCHANGED <<flat, i, j, candles, time, starting_time, store_candles, orders,
                   positions, balance, completed_trades, daily_balance,
                   current_temp_candle, executed_order, iterations, arrival_active,
                   events, runs>>
    /\ UNCHANGED <<previous, loader, order_limit, length_limit, dna>>

\* line 172
InitialBalance ==
    /\ pc = "initial_balance"
    /\ daily_balance' = save_daily_portfolio_balance
    /\ pc' = "loop"
    /\ i' = 0
    /\ UNCHANGED <<flat, j, r, candles, time, starting_time, store_candles, orders,
                   positions, balance, completed_trades, strategy, current_temp_candle,
                   executed_order, iterations, arrival_active, events, runs>>
    /\ UNCHANGED <<previous, loader, order_limit, length_limit, dna, hyper_parameters>>

\* length (line 144): the rows of the first series
InputLength == Len(candles[1])

MaxLength == IF flat THEN MaxFlatMinutes ELSE length_limit

Rows == IF flat THEN { <<FlatShape, FlatShape>> } ELSE InputRows

\* lines 175-177: the loop reads row i of every series and sets the clock.
UpdateTime ==
    /\ pc = "loop"
    /\ i < MaxLength
    /\ runs = 0 \/ i < InputLength
    /\ \E row \in Rows :
         candles' = [p \in Pairs |->
                          IF Len(candles[p]) > i THEN candles[p]
                          ELSE Append(candles[p], <<RowTs(i)>> \o row[p])]
    /\ time' = RowTs(i) + MinuteMs
    /\ events' = << <<"time">> >>
    /\ pc' = "add_candle"
    /\ j' = 1
    /\ UNCHANGED <<flat, i, r, starting_time, store_candles, orders, positions, balance,
                   completed_trades, daily_balance, strategy, current_temp_candle,
                   executed_order, iterations, arrival_active, runs>>
    /\ UNCHANGED <<previous, loader, order_limit, length_limit, dna, hyper_parameters>>

ActiveIndexes(os) == {k \in 1..Len(os) : is_active(os[k])}

\* lines 181-192 and 269-272: the 1m candle is stored and matching starts.
AddCandle ==
    /\ pc = "add_candle"
    /\ LET short_candle == candles[j][i + 1]
       IN /\ store_candles' = [store_candles EXCEPT ![j]["1m"] = add_candle(@, short_candle)]
          /\ current_temp_candle' = short_candle
    /\ executed_order' = FALSE
    /\ iterations' = 0
    /\ arrival_active' = [arrival_active EXCEPT ![j] = ActiveIndexes(orders[j])]
    /\ events' = Append(events, <<"add_candle", j>>)
    /\ pc' = "simulate"
    /\ UNCHANGED <<flat, i, j, r, candles, time, starting_time, orders, positions, balance,
                   completed_trades, daily_balance, strategy, runs>>
    /\ UNCHANGED <<previous, loader, order_limit, length_limit, dna, hyper_parameters>>

\* lines 275-303: the for loop over the orders, from index k with the flag as
\* it stands; hit is the order executed (0: none), flag is executed_order when
\* the for loop ends.
\* the for loop without lines 279-280
RECURSIVE ScanOrdersNoReset(_, _, _, _)
ScanOrdersNoReset(os, c, k, flag) ==
    IF k > Len(os) THEN [hit |-> 0, flag |-> flag]
    ELSE IF ~is_active(os[k]) THEN ScanOrdersNoReset(os, c, k + 1, flag)
    ELSE IF candle_includes_price(c, os[k].price) THEN [hit |-> k, flag |-> TRUE]
    ELSE ScanOrdersNoReset(os, c, k + 1, FALSE)

RECURSIVE ScanOrders(_, _, _, _)
ScanOrders(os, c, k, flag) ==
    IF k > Len(os) THEN [hit |-> 0, flag |-> flag]
    ELSE LET flag1 == IF k = Len(os) /\ ~is_active(os[k]) THEN FALSE ELSE flag
         IN IF ~is_active(os[k]) THEN ScanOrders(os, c, k + 1, flag1)
            ELSE IF candle_includes_price(c, os[k].price) THEN [hit |-> k, flag |-> TRUE]
            ELSE ScanOrders(os, c, k + 1, FALSE)

\* the for loop without the test of line 282
ScanAnyStatus(os, c, flag) ==
    IF \E k \in 1..Len(os) : candle_includes_price(c, os[k].price)
    THEN [hit |-> CHOOSE k \in 1..Len(os) :
                     /\ candle_includes_price(c, os[k].price)
                     /\ \A m \in 1..(k - 1) : ~candle_includes_price(c, os[m].price),
          flag |-> TRUE]
    ELSE [hit |-> 0, flag |-> FALSE]

\* the for loop going through the orders from the newest to the oldest
ScanFromEnd(os, c, flag) ==
    LET hits == {k \in 1..Len(os) : is_active(os[k]) /\ candle_includes_price(c, os[k].price)}
    IN IF hits = {} THEN [hit |-> 0, flag |-> FALSE]
       ELSE [hit |-> CHOOSE k \in hits : \A m \in hits : m <= k, flag |-> TRUE]

Scan(os, c, flag) ==
    IF Len(os) = 0 THEN [hit |-> 0, flag |-> FALSE] ELSE ScanOrders(os, c, 1, flag)

\* line 286 with the two names of the unpacking exchanged
RemainderFirst(pieces) == [storable_temp_candle |-> pieces[2],
                           current_temp_candle |-> pieces[1]]

\* line 286: the pair returned by split_candle is unpacked into the storable
\* piece and the new current_temp_candle.
Unpack(pieces) == [storable_temp_candle |-> pieces[1],
                   current_temp_candle |-> pieces[2]]

\* lines 285-301: one iteration of the while loop that executes an order.
\* the store as order.execute() would find it if it ran before lines 286-293
SeenBeforeWrite(p, split) ==
    [tail |-> IF Len(store_candles[p]["1m"]) = 0 THEN NoCandle
              ELSE store_candles[p]["1m"][Len(store_candles[p]["1m"])],
     current_price |-> positions[p].current_price,
     current_temp_candle |-> current_temp_candle]

\* lines 286-293: what the store holds when order.execute() (line 297) is
\* invoked: the tail of the 1m series after add_candle was given the storable
\* piece (line 287), the position's current_price, which is the close of the
\* storable piece (line 293), and current_temp_candle, the remainder.
SeenAtExecute(p, split) ==
    [tail |-> LET series == add_candle(store_candles[p]["1m"], split.storable_temp_candle)
              IN series[Len(series)],
     current_price |-> Close(split.storable_temp_candle),
     current_temp_candle |-> split.current_temp_candle]

MatchOrder ==
    /\ pc = "simulate"
    /\ LET s == Scan(orders[j], current_temp_candle, executed_order)
       IN /\ s.hit # 0
          /\ LET split  == Unpack(split_candle(current_temp_candle, orders[j][s.hit].price))
                 seen   == SeenAtExecute(j, split)
                 priced == [Ledger EXCEPT !.positions[j].current_price =
                                              seen.current_price]
                 filled == ExecuteOrder(priced, j, s.hit)
             IN /\ store_candles' = [store_candles EXCEPT ![j]["1m"] =
                                         add_candle(@, split.storable_temp_candle)]
                /\ current_temp_candle' = split.current_temp_candle
                /\ \E req \in Callbacks(filled, j) :
                     LET L == Submit(filled, j, req)
                         created == IF Len(L.orders[j]) > Len(orders[j])
                                    THEN Len(L.orders[j]) ELSE 0
                     IN /\ orders' = L.orders
                        /\ positions' = L.positions
                        /\ balance' = L.balance
                        /\ completed_trades' = L.completed_trades
                        /\ events' = Append(events,
                                            <<"fill", j, s.hit, split.storable_temp_candle,
                                              split.current_temp_candle, created, seen>>)
          /\ executed_order' = s.flag
    /\ iterations' = iterations + 1
    /\ UNCHANGED <<flat, pc, i, j, r, candles, time, starting_time, daily_balance,
                   strategy, arrival_active, runs>>
    /\ UNCHANGED <<previous, loader, order_limit, length_limit, dna, hyper_parameters>>

\* lines 305-314 without the store of the real candle and of its close
LeaveMatchingKeepsPiece ==
    /\ pc = "simulate"
    /\ LET s == Scan(orders[j], current_temp_candle, executed_order)
       IN /\ s.hit = 0
          /\ ~s.flag
          /\ executed_order' = s.flag
    /\ iterations' = iterations + 1
    /\ events' = Append(events, <<"real_candle", j>>)
    /\ pc' = "generate"
    /\ UNCHANGED <<flat, i, j, r, candles, time, starting_time, store_candles, orders,
                   positions, balance, completed_trades, daily_balance, strategy,
                   current_temp_candle, arrival_active, runs>>
    /\ UNCHANGED <<previous, loader, order_limit, length_limit, dna, hyper_parameters>>

\* lines 305-314: the iteration that executes nothing leaves the loop.
LeaveMatching ==
    /\ pc = "simulate"
    /\ LET s == Scan(orders[j], current_temp_candle, executed_order)
           real_candle == candles[j][i + 1]
       IN /\ s.hit = 0
          /\ ~s.flag
          /\ executed_order' = s.flag
          /\ store_candles' = [store_candles EXCEPT ![j]["1m"] = add_candle(@, real_candle)]
          /\ positions' = [positions EXCEPT ![j].current_price = Close(real_candle)]
    /\ iterations' = iterations + 1
    /\ events' = Append(events, <<"real_candle", j>>)
    /\ pc' = "generate"
    /\ UNCHANGED <<flat, i, j, r, candles, time, starting_time, orders, balance,
                   completed_trades, daily_balance, strategy, current_temp_candle,
                   arrival_active, runs>>
    /\ UNCHANGED <<previous, loader, order_limit, length_limit, dna, hyper_parameters>>

\* lines 195-208 with the slice starting one row late
GenerateOneShort(series, p, tf) ==
    LET count == timeframe_to_one_minutes(tf)
    IN IF tf # "1m" /\ (i + 1) % count = 0
       THEN add_candle(series,
                       generate_candle_from_one_minutes(
                           tf, Slice(candles[p], i - (count - 2), i + 1)))
       ELSE series

\* lines 195-208 for one timeframe
GenerateOne(series, p, tf) ==
    LET count == timeframe_to_one_minutes(tf)
    IN IF tf # "1m" /\ (i + 1) % count = 0
       THEN add_candle(series,
                       generate_candle_from_one_minutes(
                           tf, Slice(candles[p], i - (count - 1), i + 1)))
       ELSE series

\* the loop of line 180 ended after the first pair
AllCandlesAddedEarly == TRUE

\* line 180: the loop over candles has handled its last pair
AllCandlesAdded == j = Cardinality(Pairs)

EmittedNow(tf) == tf # "1m" /\ (i + 1) % timeframe_to_one_minutes(tf) = 0

\* lines 195-208: the candles of the bigger timeframes, then the next pair.
Generate ==
    /\ pc = "generate"
    /\ store_candles' = [store_candles EXCEPT ![j] =
                           [tf \in Timeframes |-> GenerateOne(@[tf], j, tf)]]
    /\ events' = events \o
                 SelectSeq([k \in 1..Len(ConsideringTimeframes) |->
                               <<"generate", j, ConsideringTimeframes[k]>>],
                           LAMBDA e : EmittedNow(e[3]))
    /\ IF AllCandlesAdded
       THEN pc' = "execute" /\ j' = 1 /\ r' = 1
       ELSE pc' = "add_candle" /\ j' = j + 1 /\ r' = r
    /\ UNCHANGED <<flat, i, candles, time, starting_time, orders, positions, balance,
                   completed_trades, daily_balance, strategy, current_temp_candle,
                   executed_order, iterations, arrival_active, runs>>
    /\ UNCHANGED <<previous, loader, order_limit, length_limit, dna, hyper_parameters>>

\* lines 216-220 with i in place of i + 1
RouteExecutesEarly(k) ==
    \/ Routes[k].timeframe = "1m"
    \/ i % timeframe_to_one_minutes(Routes[k].timeframe) = 0

\* lines 216-220: whether route k executes at index i
RouteExecutes(k) ==
    \/ Routes[k].timeframe = "1m"
    \/ (i + 1) % timeframe_to_one_minutes(Routes[k].timeframe) = 0

\* lines 215-225 for route r: the strategy's _execute(), when it is due.
ExecuteRoute ==
    /\ pc = "execute"
    /\ IF RouteExecutes(r)
       THEN /\ \E req \in Decisions(Ledger, Routes[r].pair) :
                 LET L == Submit(Ledger, Routes[r].pair, req)
                 IN orders' = L.orders
            /\ strategy' = [strategy EXCEPT ![r].executions = @ + 1]
            /\ events' = Append(events, <<"execute", r>>)
       ELSE UNCHANGED <<orders, strategy, events>>
    /\ IF r = Len(Routes)
       THEN pc' = "market_orders" /\ r' = 1
       ELSE pc' = pc /\ r' = r + 1
    /\ UNCHANGED <<flat, i, j, candles, time, starting_time, store_candles, positions,
                   balance, completed_trades, daily_balance, current_temp_candle,
                   executed_order, iterations, arrival_active, runs>>
    /\ UNCHANGED <<previous, loader, order_limit, length_limit, dna, hyper_parameters>>

\* store.orders.execute_pending_market_orders (line 228): the first pair and
\* order, in insertion order, that is an active market order; <<0, 0>>: none.
IsPendingMarket(o) == o.type = "market" /\ is_active(o)

PendingMarket ==
    IF \E p \in Pairs : \E k \in 1..Len(orders[p]) : IsPendingMarket(orders[p][k])
    THEN LET p == CHOOSE q \in Pairs :
                     /\ \E k \in 1..Len(orders[q]) : IsPendingMarket(orders[q][k])
                     /\ \A q2 \in Pairs : q2 < q =>
                          ~\E k \in 1..Len(orders[q2]) : IsPendingMarket(orders[q2][k])
             k == CHOOSE m \in 1..Len(orders[p]) :
                     /\ IsPendingMarket(orders[p][m])
                     /\ \A m2 \in 1..(m - 1) : ~IsPendingMarket(orders[p][m2])
         IN <<p, k>>
    ELSE <<0, 0>>

\* line 228: the sweep executes one pending market order.
MarketOrder ==
    /\ pc = "market_orders"
    /\ PendingMarket # <<0, 0>>
    /\ LET p == PendingMarket[1]
           filled == ExecuteOrder(Ledger, p, PendingMarket[2])
       IN /\ \E req \in Callbacks(filled, p) :
               LET L == Submit(filled, p, req)
               IN /\ orders' = L.orders
                  /\ positions' = L.positions
                  /\ balance' = L.balance
                  /\ completed_trades' = L.completed_trades
          /\ events' = Append(events, <<"market_fill", p, PendingMarket[2]>>)
    /\ UNCHANGED <<flat, pc, i, j, r, candles, time, starting_time, store_candles,
                   daily_balance, strategy, current_temp_candle, executed_order,
                   iterations, arrival_active, runs>>
    /\ UNCHANGED <<previous, loader, order_limit, length_limit, dna, hyper_parameters>>

\* line 228: the sweep ends when no market order is pending.
MarketOrdersDone ==
    /\ pc = "market_orders"
    /\ PendingMarket = <<0, 0>>
    /\ events' = Append(events, <<"market_orders">>)
    /\ pc' = "daily"
    /\ UNCHANGED <<flat, i, j, r, candles, time, starting_time, store_candles, orders,
                   positions, balance, completed_trades, daily_balance, strategy,
                   current_temp_candle, executed_order, iterations, arrival_active, runs>>
    /\ UNCHANGED <<previous, loader, order_limit, length_limit, dna, hyper_parameters>>

\* line 230 without its first test
DailyDueAtZero(k) == k % MinutesPerDay = 0

DailyDue(k) == k # 0 /\ k % MinutesPerDay = 0

\* lines 230-231, and the next index of the for loop
DailyBalance ==
    /\ pc = "daily"
    /\ daily_balance' = IF DailyDue(i) THEN save_daily_portfolio_balance ELSE daily_balance
    /\ events' = IF DailyDue(i) THEN Append(events, <<"daily_balance">>) ELSE events
    /\ i' = i + 1
    /\ pc' = "loop"
    /\ UNCHANGED <<flat, j, r, candles, time, starting_time, store_candles, orders,
                   positions, balance, completed_trades, strategy, current_temp_candle,
                   executed_order, iterations, arrival_active, runs>>
    /\ UNCHANGED <<previous, loader, order_limit, length_limit, dna, hyper_parameters>>

\* line 175: the for loop is over.
FinishLoop ==
    /\ pc = "loop"
    /\ i >= 1
    /\ i = InputLength
    /\ pc' = "terminate"
    /\ r' = 1
    /\ UNCHANGED <<flat, i, j, candles, time, starting_time, store_candles, orders,
                   positions, balance, completed_trades, daily_balance, strategy,
                   current_temp_candle, executed_order, iterations, arrival_active,
                   events, runs>>
    /\ UNCHANGED <<previous, loader, order_limit, length_limit, dna, hyper_parameters>>

\* What a strategy may ask for in _terminate().
TerminateRequests(L, p) ==
    {req \in Decisions(L, p) : req[1] \in {"none", "market"}}

\* lines 241-242 with the loop left after the first route
TerminateFirstRouteOnly ==
    /\ pc = "terminate"
    /\ \E req \in TerminateRequests(Ledger, Routes[r].pair) :
         LET L == Submit(Ledger, Routes[r].pair, req)
         IN orders' = L.orders
    /\ strategy' = [strategy EXCEPT ![r].state = "terminated",
                                    ![r].terminations = @ + 1]
    /\ pc' = "final_balance" /\ r' = 1
    /\ UNCHANGED <<flat, i, j, candles, time, starting_time, store_candles, positions,
                   balance, completed_trades, daily_balance, current_temp_candle,
                   executed_order, iterations, arrival_active, events, runs>>
    /\ UNCHANGED <<previous, loader, order_limit, length_limit, dna, hyper_parameters>>

\* lines 241-242 for route r
Terminate ==
    /\ pc = "terminate"
    /\ \E req \in TerminateRequests(Ledger, Routes[r].pair) :
         LET L == Submit(Ledger, Routes[r].pair, req)
         IN orders' = L.orders
    /\ strategy' = [strategy EXCEPT ![r].state = "terminated",
                                    ![r].terminations = @ + 1]
    /\ IF r = Len(Routes)
       THEN pc' = "final_balance" /\ r' = 1
       ELSE pc' = pc /\ r' = r + 1
    /\ UNCHANGED <<flat, i, j, candles, time, starting_time, store_candles, positions,
                   balance, completed_trades, daily_balance, current_temp_candle,
                   executed_order, iterations, arrival_active, events, runs>>
    /\ UNCHANGED <<previous, loader, order_limit, length_limit, dna, hyper_parameters>>

\* line 245
FinalBalance ==
    /\ pc = "final_balance"
    /\ daily_balance' = save_daily_portfolio_balance
    /\ pc' = "done"
    /\ runs' = runs + 1
    /\ UNCHANGED <<flat, i, j, r, candles, time, starting_time, store_candles, orders,
                   positions, balance, completed_trades, strategy, current_temp_candle,
                   executed_order, iterations, arrival_active, events>>
    /\ UNCHANGED <<previous, loader, order_limit, length_limit, dna, hyper_parameters>>

Next ==
    \/ Begin
    \/ InitStrategy
    \/ InitialBalance
    \/ UpdateTime
    \/ AddCandle
    \/ MatchOrder
    \/ LeaveMatching
    \/ Generate
    \/ ExecuteRoute
    \/ MarketOrder
    \/ MarketOrdersDone
    \/ DailyBalance
    \/ FinishLoop
    \/ Terminate
    \/ FinalBalance

Spec == Init /\ [][Next]_vars

\* The matching of a minute does not depend on how many minutes follow it:
\* these runs are one minute shorter.
InitFair ==
    /\ InitSimulator
    /\ NoDna
    /\ flat = FALSE
    /\ order_limit = MaxOrders
    /\ length_limit = MaxMinutes - 1

\* simulator runs to its end: it is one sequential thread of control, so a
\* step that can be taken is taken.
SpecFair == InitFair /\ [][Next]_vars /\ WF_vars(Next)

\* Runs whose strategies submit one order more.
InitOrders ==
    /\ InitSimulator
    /\ NoDna
    /\ flat = FALSE
    /\ order_limit = MaxOrders + 1
    /\ length_limit = MaxMinutes

SpecOrders == InitOrders /\ [][Next]_vars

\* The setup of simulator (lines 141-172) for routes that may carry a DNA
\* string each, called with or without a hyper_parameters argument.
InitDna ==
    /\ InitSimulator
    /\ flat = FALSE
    /\ order_limit = MaxOrders
    /\ length_limit = MaxMinutes
    /\ dna \in [1..Len(Routes) -> {None} \cup 1..MaxDna]
    /\ hyper_parameters \in {None, ExplicitHp}

NextDna ==
    \/ Begin
    \/ InitStrategy
    \/ InitialBalance

SpecDna == InitDna /\ [][NextDna]_vars

(***************************************************************************)
(* A second invocation of simulator with the same candles and routes, in   *)
(* the same process: neither run nor simulator resets the store.           *)
(***************************************************************************)
Rerun ==
    /\ pc = "done"
    /\ runs = 1
    /\ previous' = [completed_trades |-> completed_trades, daily_balance |-> daily_balance]
    /\ pc' = "start"
    /\ i' = 0
    /\ j' = 1
    /\ r' = 1
    /\ events' = <<>>
    /\ UNCHANGED <<flat, candles, time, starting_time, store_candles, orders, positions,
                   balance, completed_trades, daily_balance, strategy,
                   current_temp_candle, executed_order, iterations, arrival_active, runs>>
    /\ hyper_parameters' = None
    /\ UNCHANGED <<loader, order_limit, length_limit, dna>>

InitRerun == Init /\ flat = FALSE

NextRerun == Next \/ Rerun

SpecRerun == InitRerun /\ [][NextRerun]_vars

(***************************************************************************)
(* run and _load_candles (lines 26-137).  Dates are day numbers; the       *)
(* Candle table and the cache are described by what they hold for a pair:  *)
(* every minute ("full"), nothing ("empty"), every minute but one ("gap"), *)
(* every minute but one with the minute before it twice ("dup"), or every  *)
(* minute but one with a row half a minute before it instead ("shift").    *)
(***************************************************************************)
DayMs == MinutesPerDay * MinuteMs

MaxDate == 3

\* arrow.utcnow(), in ms: the morning of day 2
Now == 2 * DayMs + DayMs \div 3

date_to_timestamp(d) == d * DayMs

Tables ==
    { [kind |-> "full", at |-> 0], [kind |-> "empty", at |-> 0] }
      \cup { [kind |-> "gap", at |-> m] : m \in {0, 1, MinutesPerDay - 1} }
      \cup { [kind |-> k, at |-> 1] : k \in {"dup", "shift"} }

NoValue == [kind |-> "none", at |-> 0]

\* The timestamps, in ascending order, of the rows of a table between two
\* timestamps that are whole minutes.
TableRows(t, from, to) ==
    LET n       == IF to < from THEN 0 ELSE (to - from) \div MinuteMs + 1
        perfect == [k \in 1..n |-> from + (k - 1) * MinuteMs]
        hole    == t.at - from \div MinuteMs + 1
    IN CASE t.kind = "full" -> perfect
         [] t.kind \in {"empty", "none"} -> <<>>
         [] t.kind = "gap" ->
              IF hole \in 1..n
              THEN SubSeq(perfect, 1, hole - 1) \o SubSeq(perfect, hole + 1, n)
              ELSE perfect
         [] t.kind = "dup" ->
              IF hole \in 2..n THEN [perfect EXCEPT ![hole] = perfect[hole - 1]]
              ELSE perfect
         [] t.kind = "shift" ->
              IF hole \in 2..n THEN [perfect EXCEPT ![hole] = perfect[hole] - MinuteMs \div 2]
              ELSE perfect

start_ms == date_to_timestamp(start_date)

\* line 78
finish_ms == date_to_timestamp(finish_date) - MinuteMs

InitRun ==
    /\ InitStore
    /\ flat = FALSE
    /\ order_limit = MaxOrders
    /\ length_limit = MaxMinutes
    /\ NoDna
    /\ run_pc = "run"
    /\ start_date \in 0..MaxDate
    /\ finish_date \in 0..MaxDate
    /\ routes_valid \in BOOLEAN
    /\ preloaded \in BOOLEAN
    /\ database \in [Pairs -> Tables]
    /\ cache \in [Pairs -> {NoValue, [kind |-> "full", at |-> 0], [kind |-> "dup", at |-> 1]}]
    /\ loaded = [p \in Pairs |-> NoValue]
    /\ cache_set = {}
    /\ error = ""
    /\ key = 1

store == <<flat, order_limit, length_limit, dna, hyper_parameters, pc, i, j, r, candles, time, starting_time, store_candles, orders,
           positions, balance, completed_trades, daily_balance, strategy,
           current_temp_candle, executed_order, iterations, arrival_active,
           events, runs, previous>>

\* the store without store.candles
store_but_candles ==
    <<flat, order_limit, length_limit, dna, hyper_parameters, pc, i, j, r, candles, time,
      starting_time, orders, positions, balance, completed_trades, daily_balance,
      strategy, current_temp_candle, executed_order, iterations, arrival_active,
      events, runs, previous>>

\* store.candles.init_storage (line 35): an empty series for every pair and
\* timeframe
init_storage == [p \in Pairs |-> [tf \in Timeframes |-> <<>>]]

\* lines 32-40: validate_routes, the storage of the candle store, then the
\* candles argument or _load_candles
ValidateRoutes ==
    /\ run_pc = "run"
    /\ IF ~routes_valid
       THEN run_pc' = "raised" /\ error' = "InvalidRoutes" /\ UNCHANGED store_candles
       ELSE /\ store_candles' = init_storage
            /\ error' = error
            /\ run_pc' = IF preloaded THEN "simulator" ELSE "dates"
    /\ UNCHANGED <<start_date, finish_date, routes_valid, preloaded, database, cache,
                   loaded, cache_set, key>>
    /\ UNCHANGED store_but_candles

\* lines 77-86
ValidateDates ==
    /\ run_pc = "dates"
    /\ IF start_ms = finish_ms \/ start_ms > finish_ms \/ finish_ms > Now
       THEN run_pc' = "raised" /\ error' = "ValueError"
       ELSE run_pc' = "inject" /\ error' = error
    /\ key' = 1
    /\ UNCHANGED <<start_date, finish_date, routes_valid, preloaded, database, cache,
                   loaded, cache_set>>
    /\ UNCHANGED store

\* required_candles.load_required_candles (line 91): n candles of the minutes
\* before start_date, oldest first
load_required_candles(n) ==
    [k \in 1..n |-> <<start_ms - (n - k + 1) * MinuteMs>> \o FlatShape]

\* required_candles.inject_required_candles_to_store (line 90): the candles
\* are added to the 1m series of the pair
RECURSIVE inject_required_candles_to_store(_, _)
inject_required_candles_to_store(cs, series) ==
    IF cs = <<>> THEN series
    ELSE inject_required_candles_to_store(Tail(cs), add_candle(series, Head(cs)))

\* lines 88-94 for one considering candle: the required initial candles are
\* loaded and written to the store, before any pair is loaded and validated.
InjectRequiredCandles ==
    /\ run_pc = "inject"
    /\ \E n \in 0..MaxRequired :
         store_candles' = [store_candles EXCEPT ![key]["1m"] =
                              inject_required_candles_to_store(load_required_candles(n), @)]
    /\ IF key = Cardinality(Pairs)
       THEN run_pc' = "load" /\ key' = 1
       ELSE run_pc' = run_pc /\ key' = key + 1
    /\ UNCHANGED <<start_date, finish_date, routes_valid, preloaded, database, cache,
                   loaded, cache_set, error>>
    /\ UNCHANGED store_but_candles

\* lines 120-126: whether the loaded tuple is refused
Refused(tuple) ==
    LET required_candles_count == (finish_ms - start_ms) \div MinuteMs
    IN \/ Len(tuple) = 0
       \/ tuple[Len(tuple)] # finish_ms
       \/ tuple[1] # start_ms
       \/ Len(tuple) # required_candles_count + 1

\* lines 100-135 for one pair: the cached value or the rows of the table are
\* validated, cached and kept.
LoadCandles ==
    /\ run_pc = "load"
    /\ LET cached_value == TableRows(cache[key], start_ms, finish_ms)
           source == IF Len(cached_value) # 0 THEN cache[key] ELSE database[key]
           candles_tuple == TableRows(source, start_ms, finish_ms)
       IN /\ loaded' = [loaded EXCEPT ![key] = source]
          /\ IF Refused(candles_tuple)
             THEN /\ run_pc' = "raised"
                  /\ error' = "CandleNotFoundInDatabase"
                  /\ UNCHANGED <<cache, cache_set, key>>
             ELSE /\ cache' = [cache EXCEPT ![key] = source]
                  /\ cache_set' = cache_set \cup {key}
                  /\ error' = error
                  /\ IF key = Cardinality(Pairs)
                     THEN run_pc' = "simulator" /\ key' = key
                     ELSE run_pc' = run_pc /\ key' = key + 1
    /\ UNCHANGED <<start_date, finish_date, routes_valid, preloaded, database>>
    /\ UNCHANGED store

\* first_candles_set[0][0] (lines 142-146): the first timestamp of the candles
\* of the first pair, given by the caller or loaded
FirstTimestamp ==
    IF preloaded THEN RowTs(0) ELSE TableRows(loaded[1], start_ms, finish_ms)[1]

\* line 58: simulator(candles) is called (lines 141-146).
CallSimulator ==
    /\ run_pc = "simulator"
    /\ pc = "start"
    /\ run_pc' = "simulating"
    /\ starting_time' = FirstTimestamp
    /\ pc' = "init_strategies"
    /\ r' = 1
    /\ UNCHANGED <<flat, order_limit, length_limit, dna, hyper_parameters, i, j, candles, time, store_candles, orders,
                   positions, balance, completed_trades, daily_balance, strategy,
                   current_temp_candle, executed_order, iterations, arrival_active,
                   events, runs, previous>>
    /\ UNCHANGED <<start_date, finish_date, routes_valid, preloaded, database, cache,
                   loaded, cache_set, error, key>>

\* lines 149-172 of a simulator called by run
StartSimulation ==
    /\ run_pc = "simulating"
    /\ InitStrategy \/ InitialBalance

NextRun ==
    \/ ValidateRoutes
    \/ ValidateDates
    \/ InjectRequiredCandles
    \/ LoadCandles
    \/ CallSimulator
    \/ StartSimulation

SpecRun == InitRun /\ [][NextRun]_vars

(***************************************************************************)
(* Positions of the run used by the properties.                            *)
(***************************************************************************)
InMinute == pc \in {"add_candle", "simulate", "generate", "execute", "market_orders", "daily"}

AfterCandles == pc \in {"execute", "market_orders", "daily"}

\* _simulate_price_change_effect has returned for row i of pair p
MatchedNow(p) ==
    \/ AfterCandles
    \/ pc = "generate" /\ j >= p
    \/ pc \in {"add_candle", "simulate"} /\ j > p

\* the bigger timeframes of row i of pair p have been generated
GeneratedNow(p) ==
    \/ AfterCandles
    \/ pc \in {"add_candle", "simulate", "generate"} /\ j > p

\* route k has had its turn for row i
RouteDoneNow(k) ==
    \/ pc \in {"market_orders", "daily"}
    \/ pc = "execute" /\ r > k

\* rows of pair p whose matching is complete
MatchedRows(p) == IF InMinute /\ MatchedNow(p) THEN i + 1 ELSE i

GeneratedRows(p) == IF InMinute /\ GeneratedNow(p) THEN i + 1 ELSE i

RouteRows(k) == IF InMinute /\ RouteDoneNow(k) THEN i + 1 ELSE i

Matching(p) == pc = "simulate" /\ j = p

HasEvent(e) == \E n \in 1..Len(events) : events[n] = e

FillsNow(p) == {n \in 1..Len(events) : events[n][1] = "fill" /\ events[n][2] = p}

(***************************************************************************)
(* C1: when _simulate_price_change_effect has returned for a real candle R *)
(* of a pair, the 1m series of the pair holds exactly one candle for that  *)
(* minute, equal to R, and the position's current_price is R.close; so the *)
(* 1m series is the input read so far, one candle per simulated minute,    *)
(* however many split pieces were written during the matching.             *)
(***************************************************************************)
C1_SeriesHoldsRealCandles ==
    \A p \in Pairs :
        ~Matching(p) =>
            /\ store_candles[p]["1m"] = SubSeq(candles[p], 1, MatchedRows(p))
            /\ MatchedRows(p) >= 1 =>
                 positions[p].current_price = Close(candles[p][MatchedRows(p)])

\* two split pieces were written for this minute and the matching has returned
C1_Witness ==
    /\ pc = "generate"
    /\ Cardinality(FillsNow(j)) >= 2
    /\ i >= 1

(***************************************************************************)
(* C2: every order of the pair that was active when the real candle R      *)
(* arrived and whose price lies in [R.low, R.high] has been executed when  *)
(* the matching of R returns.                                              *)
(***************************************************************************)
C2_EveryCrossedOrderExecuted ==
    \A p \in Pairs :
        pc = "generate" /\ j = p =>
            \A k \in arrival_active[p] :
                candle_includes_price(candles[p][i + 1], orders[p][k].price)
                    => orders[p][k].status = "executed"

\* The sum of the values of a function with a finite domain.
RECURSIVE SumFun(_)
SumFun(f) ==
    IF DOMAIN f = {} THEN 0
    ELSE LET x == CHOOSE y \in DOMAIN f : TRUE
         IN f[x] + SumFun([y \in DOMAIN f \ {x} |-> f[y]])

ExecutedIndexes(p) == {k \in 1..Len(orders[p]) : orders[p][k].status = "executed"}

SignedQty(o) == IF o.side = "buy" THEN o.qty ELSE -o.qty

(***************************************************************************)
(* C3: each order is executed at most once: an order has been through      *)
(* execute() exactly once when it is executed and never otherwise, and     *)
(* every balance and position is the starting one plus the fill of every   *)
(* executed order, counted once.                                           *)
(***************************************************************************)
C3_ExecutedAtMostOnce ==
    /\ \A p \in Pairs : \A k \in 1..Len(orders[p]) :
          /\ orders[p][k].fills <= 1
          /\ orders[p][k].fills = 1 <=> orders[p][k].status = "executed"
    /\ \A p \in Pairs :
          positions[p].qty = SumFun([k \in ExecutedIndexes(p) |-> SignedQty(orders[p][k])])
    /\ \A e \in Exchanges :
          balance[e] = StartingBalance
                       - SumFun([p \in {q \in Pairs : ExchangeOf(q) = e} |->
                                   SumFun([k \in ExecutedIndexes(p) |->
                                             SignedQty(orders[p][k]) * orders[p][k].price])])

\* the matching has returned for a candle that includes the price of an order
\* executed in an earlier minute, after skipping it
C3_Witness ==
    /\ pc = "generate"
    /\ \E k \in ExecutedIndexes(j) :
          /\ k \notin arrival_active[j]
          /\ candle_includes_price(candles[j][i + 1], orders[j][k].price)
    /\ FillsNow(j) # {}

CeilDiv(a, b) == (a + b - 1) \div b

(***************************************************************************)
(* C4, as claimed: after a run over N one-minute candles the daily-balance *)
(* sequence has length ceil(N / 1440) + 2.                                 *)
(***************************************************************************)
C4_LengthIsCeilPlusTwo ==
    pc = "done" => Len(daily_balance) = CeilDiv(InputLength, MinutesPerDay) + 2

(***************************************************************************)
(* C4, amended: after a run over N >= 1 one-minute candles the             *)
(* daily-balance sequence has length floor((N - 1) / 1440) + 2: the        *)
(* initial snapshot, one for every index i > 0 that is a multiple of 1440, *)
(* and the final one; a run of exactly 1440 candles yields length 2.       *)
(***************************************************************************)
C4_LengthIsFloorPlusTwo ==
    /\ pc = "done" =>
         Len(daily_balance) = ((InputLength - 1) \div MinutesPerDay) + 2
    /\ pc = "done" /\ InputLength = MinutesPerDay => Len(daily_balance) = 2
    /\ pc = "done" /\ InputLength = MinutesPerDay + 1 => Len(daily_balance) = 3

\* a run of several candles has ended with the initial and the final snapshot
C4_Witness ==
    /\ pc = "done"
    /\ InputLength >= 2
    /\ Len(daily_balance) = 2

\* The equity of the specification, summed over sets.
Equity ==
    SumFun([e \in Exchanges |-> balance[e]])
    + SumFun([p \in Pairs |->
                IF positions[p].qty # 0
                THEN AbsVal(positions[p].qty) * positions[p].current_price
                ELSE SumFun([k \in ActiveIndexes(orders[p]) |->
                               AbsVal(orders[p][k].qty * orders[p][k].price)])])

(***************************************************************************)
(* C5: every value appended to daily_balance is the sum of the exchange    *)
(* balances, plus |qty| x current_price of every open position, plus       *)
(* |qty x price| of every active order of every position that is not open  *)
(* (the active orders of an open position add nothing); the snapshot       *)
(* appends one element and changes nothing else of the store.              *)
(***************************************************************************)
C5_SnapshotIsEquity ==
    [][daily_balance' # daily_balance =>
          /\ daily_balance' = Append(daily_balance, Equity)
          /\ UNCHANGED <<balance, positions, orders, completed_trades, store_candles,
                         strategy, time, candles>>]_vars

\* the final snapshot of a run that ends with an open position that has an
\* active order, whose value the snapshot leaves out
C5_Witness ==
    /\ pc = "done"
    /\ \E p \in Pairs : is_open(positions[p]) /\ ActiveIndexes(orders[p]) # {}
    /\ \E p \in Pairs : ~is_open(positions[p])
    /\ Len(daily_balance) = 2
    /\ daily_balance[2] # daily_balance[1]

SetMax(S) == CHOOSE x \in S : \A y \in S : y <= x

SetMin(S) == CHOOSE x \in S : \A y \in S : x <= y

\* The candle of timeframe k that closes with row n * k (one-based) of pair p.
Aggregated(p, n, k) ==
    LET first == (n - 1) * k + 1
        last  == n * k
    IN << Ts(candles[p][first]), Open(candles[p][first]), Close(candles[p][last]),
          SetMax({High(candles[p][m]) : m \in first..last}),
          SetMin({Low(candles[p][m]) : m \in first..last}),
          SumFun([m \in first..last |-> Volume(candles[p][m])]) >>

(***************************************************************************)
(* C6: for every pair and every timeframe T other than 1m, k = minutes(T): *)
(* a T candle is appended at index i exactly when (i + 1) mod k = 0, built *)
(* from the k one-minute candles [i-k+1 .. i]: open of the first, close of *)
(* the last, highest high, lowest low, summed volume, timestamp of the     *)
(* first; so after N minutes exactly floor(N / k) T candles exist.  The     *)
(* number of candles and the newest candle are checked in every state, and *)
(* every candle of the series at the end of the run, which may come after  *)
(* any minute.                                                             *)
(***************************************************************************)
C6_TimeframeCandles ==
    \A p \in Pairs : \A tf \in Timeframes \ {"1m"} :
        LET k == timeframe_to_one_minutes(tf)
            n == GeneratedRows(p) \div k
        IN /\ Len(store_candles[p][tf]) = n
           /\ n >= 1 => store_candles[p][tf][n] = Aggregated(p, n, k)
           /\ pc = "done" =>
                 \A m \in 1..n : store_candles[p][tf][m] = Aggregated(p, m, k)

\* the 3m candle of three one-minute candles that are not all the same
C6_Witness ==
    /\ pc = "execute"
    /\ i = 2
    /\ Len(store_candles[1]["3m"]) = 1
    /\ candles[1][1] # <<Ts(candles[1][1])>> \o Tail(candles[1][2])
    /\ High(candles[1][1]) # High(candles[1][3])

ExecuteEvents(k) == {n \in 1..Len(events) : events[n] = <<"execute", k>>}

(***************************************************************************)
(* C7: the strategy of every route is executed at index i exactly once if  *)
(* (i + 1) mod minutes(route.timeframe) = 0 and not at all otherwise (a 1m *)
(* route every minute), and when it is executed the candle of its          *)
(* timeframe that closes at i is already in the store.                     *)
(***************************************************************************)
C7_ExecuteOnBoundary ==
    \A k \in 1..Len(Routes) :
        LET tf    == Routes[k].timeframe
            count == timeframe_to_one_minutes(tf)
            p     == Routes[k].pair
        IN /\ strategy[k].executions = RouteRows(k) \div count
           /\ InMinute =>
                 Cardinality(ExecuteEvents(k)) =
                     IF RouteDoneNow(k) /\ (i + 1) % count = 0 THEN 1 ELSE 0
           /\ InMinute /\ ExecuteEvents(k) # {} =>
                 /\ Len(store_candles[p][tf]) = (i + 1) \div count
                 /\ Ts(store_candles[p][tf][(i + 1) \div count]) = RowTs(i + 1 - count)

\* the 3m route has just been executed, at i = 2, for the first time
C7_Witness ==
    /\ pc = "market_orders"
    /\ i = 2
    /\ strategy[2].executions = 1
    /\ strategy[1].executions = 3

\* The stage of the minute an event belongs to.
Stage(e) ==
    CASE e[1] = "time"          -> 0
      [] e[1] = "add_candle"    -> 10 * e[2] + 1
      [] e[1] = "fill"          -> 10 * e[2] + 2
      [] e[1] = "real_candle"   -> 10 * e[2] + 3
      [] e[1] = "generate"      -> 10 * e[2] + 4
      [] e[1] = "execute"       -> 100 + e[2]
      [] e[1] = "market_fill"   -> 200
      [] e[1] = "market_orders" -> 201
      [] e[1] = "daily_balance" -> 300

Repeats(e) == e[1] \in {"fill", "generate", "market_fill"}

(***************************************************************************)
(* C8: within every simulated minute i the clock is set to the timestamp   *)
(* of row i plus 60000 first; then, pair by pair, the 1m candle is added,  *)
(* its matching splits and fills run and its bigger timeframes are         *)
(* generated; only then the strategies are executed, in the order of the   *)
(* routes; only then the market orders are swept; and the daily snapshot,  *)
(* when due, comes last.  The stages of consecutive events never decrease, *)
(* which orders every two events of the minute.                            *)
(***************************************************************************)
C8_OrderWithinMinute ==
    /\ InMinute => time = Ts(candles[1][i + 1]) + MinuteMs
    /\ InMinute => events[1] = <<"time">>
    /\ \A a \in 1..(Len(events) - 1) :
          /\ Stage(events[a]) <= Stage(events[a + 1])
          /\ Stage(events[a]) = Stage(events[a + 1]) => Repeats(events[a])
    /\ \A p \in Pairs :
          /\ InMinute /\ (MatchedNow(p) \/ Matching(p)) => HasEvent(<<"add_candle", p>>)
          /\ InMinute /\ MatchedNow(p) => HasEvent(<<"real_candle", p>>)
          /\ \A tf \in Timeframes :
                InMinute /\ GeneratedNow(p) /\ EmittedNow(tf)
                    => HasEvent(<<"generate", p, tf>>)
    /\ \A k \in 1..Len(Routes) :
          InMinute /\ RouteDoneNow(k) /\ RouteExecutes(k) => HasEvent(<<"execute", k>>)
    /\ pc = "daily" => HasEvent(<<"market_orders">>)
    /\ pc = "loop" /\ i >= 1 /\ DailyDue(i - 1) =>
          events[Len(events)] = <<"daily_balance">>

\* a minute with a fill in the matching, a generated 3m candle, both strategies
\* executed and a market order swept
C8_Witness ==
    /\ pc = "daily"
    /\ \E n \in 1..Len(events) : events[n][1] = "fill"
    /\ \E n \in 1..Len(events) : events[n][1] = "generate"
    /\ HasEvent(<<"execute", 1>>)
    /\ HasEvent(<<"execute", 2>>)
    /\ \E n \in 1..Len(events) : events[n][1] = "market_fill"

(***************************************************************************)
(* C9: simulator invoked twice with identical candles and routes yields,   *)
(* for the second run, the completed-trades list and the daily-balance     *)
(* series of the first.                                                    *)
(***************************************************************************)
C9_SecondRunSameOutputs ==
    pc = "done" /\ runs = 2 =>
        /\ daily_balance = previous.daily_balance
        /\ completed_trades = previous.completed_trades

StrictlyIncreasing(tuple) ==
    \A k \in 1..(Len(tuple) - 1) : tuple[k] < tuple[k + 1]

\* What the claim calls an invalid sequence.
Invalid(tuple) ==
    \/ Len(tuple) = 0
    \/ tuple[1] # start_ms
    \/ tuple[Len(tuple)] # finish_ms
    \/ Len(tuple) # (finish_ms - start_ms) \div MinuteMs + 1
    \/ ~StrictlyIncreasing(tuple)
    \/ \E k \in 0..((finish_ms - start_ms) \div MinuteMs) :
           \A n \in 1..Len(tuple) : tuple[n] # start_ms + k * MinuteMs

LoadedTuple(p) == TableRows(loaded[p], start_ms, finish_ms)

WasLoaded(p) == run_pc \in {"load", "raised", "simulator", "simulating"} /\ ~preloaded
                /\ (p < key \/ run_pc # "load") /\ (error = "CandleNotFoundInDatabase" => p <= key)
                /\ error \notin {"InvalidRoutes", "ValueError"}

(***************************************************************************)
(* C10: when run loads the candles, for every pair whose loaded sequence   *)
(* (from the cache or the database) is empty, or does not start at         *)
(* start_ms, or does not end at finish_ms, or has not                      *)
(* (finish_ms - start_ms) / 60000 + 1 candles, or is not strictly          *)
(* increasing, run raises the candle error before simulator is invoked: no *)
(* strategy is instantiated, no daily-balance snapshot is appended and the *)
(* sequence is not written to the cache.                                   *)
(***************************************************************************)
C10_InvalidCandlesRaise ==
    \A p \in Pairs :
        WasLoaded(p) /\ Invalid(LoadedTuple(p)) =>
            /\ run_pc = "raised"
            /\ error = "CandleNotFoundInDatabase"
            /\ p \notin cache_set
            /\ \A k \in 1..Len(Routes) : strategy[k].state = "none"
            /\ daily_balance = <<>>

InvalidInput ==
    \/ ~routes_valid
    \/ ~(start_ms < finish_ms)
    \/ finish_ms > Now

(***************************************************************************)
(* C11: for every invocation of run, with or without preloaded candles, if *)
(* the routes are invalid, or start_date is not strictly before the        *)
(* effective finish (finish_date minus one minute), or the finish lies in  *)
(* the future, run raises before simulator is invoked: no strategy is      *)
(* instantiated and no daily-balance snapshot is appended.                 *)
(***************************************************************************)
C11_InvalidInputRaises ==
    InvalidInput =>
        /\ run_pc \in {"run", "dates", "raised"}
        /\ \A k \in 1..Len(Routes) : strategy[k].state = "none"
        /\ daily_balance = <<>>

\* The pieces derived so far from the real candle of pair p in the current
\* minute: the storable piece of every split, then the remainder.
Pieces(p) ==
    [n \in 1..Cardinality(FillsNow(p)) |->
        events[CHOOSE e \in FillsNow(p) :
                  Cardinality({f \in FillsNow(p) : f <= e}) = n][4]]
      \o <<current_temp_candle>>

\* The price of the order filled at split n of pair p in the current minute.
FilledPrice(p, n) ==
    orders[p][events[CHOOSE e \in FillsNow(p) :
                        Cardinality({f \in FillsNow(p) : f <= e}) = n][3]].price

(***************************************************************************)
(* C12: for the real candle R of a minute and the pieces P_1..P_m derived  *)
(* from it (the storable piece of every split so far, then the remainder): *)
(* P_1.open = R.open, P_m.close = R.close, every storable piece closes at  *)
(* the price of the order filled at its split and the next piece opens at  *)
(* that price, the highest high is R.high, the lowest low is R.low and the *)
(* volumes add up to R.volume.  Checked after every iteration of the       *)
(* matching and when it has returned.                                      *)
(***************************************************************************)
C12_SplitConservation ==
    pc \in {"simulate", "generate"} =>
        LET R == candles[j][i + 1]
            P == Pieces(j)
            m == Len(P)
        IN /\ Open(P[1]) = Open(R)
           /\ Close(P[m]) = Close(R)
           /\ \A n \in 1..(m - 1) :
                 /\ Close(P[n]) = FilledPrice(j, n)
                 /\ Open(P[n + 1]) = FilledPrice(j, n)
           /\ SetMax({High(P[n]) : n \in 1..m}) = High(R)
           /\ SetMin({Low(P[n]) : n \in 1..m}) = Low(R)
           /\ SumFun([n \in 1..m |-> Volume(P[n])]) = Volume(R)
           /\ \A n \in 1..m : Ts(P[n]) = Ts(R)

\* the matching of a candle that was split twice has returned
C12_Witness ==
    /\ pc = "generate"
    /\ Cardinality(FillsNow(j)) = 2
    /\ Len(Pieces(j)) = 3
    /\ Pieces(j)[1] # Pieces(j)[2]

\* An iteration of the matching loop that executes an order.
MatchStep == pc = "simulate" /\ pc' = "simulate" /\ iterations' = iterations + 1

\* The index of the order executed by the iteration just made.
Executed == events'[Len(events')][3]

Crossed(o) == is_active(o) /\ candle_includes_price(current_temp_candle, o.price)

(***************************************************************************)
(* C13: in every iteration of the matching loop the order executed is the  *)
(* first order, in insertion order, that is active and whose price is in   *)
(* [low, high] of current_temp_candle; the orders before it (inactive, or  *)
(* active with a price outside) and the orders after it are left as they   *)
(* are, one order is executed per iteration, and of several active orders  *)
(* with the same price inside the candle the earliest is executed first.   *)
(***************************************************************************)
C13_FirstCrossedOrder ==
    [][MatchStep =>
          /\ events'[Len(events')][1] = "fill"
          /\ Executed \in 1..Len(orders[j])
          /\ Crossed(orders[j][Executed])
          /\ \A m \in 1..(Executed - 1) : ~Crossed(orders[j][m])
          /\ orders'[j][Executed].status = "executed"
          /\ \A m \in 1..Len(orders[j]) : m # Executed => orders'[j][m] = orders[j][m]
          /\ \A p \in Pairs : p # j => orders'[p] = orders[p]
          /\ \A m \in (Executed + 1)..Len(orders[j]) :
                Crossed(orders[j][m]) /\ orders[j][m].price = orders[j][Executed].price
                    => is_active(orders'[j][m])]_vars

\* an iteration has executed the earlier of two active orders with the same
\* price; the later one is still active
C13_Witness ==
    /\ pc = "simulate"
    /\ iterations = 1
    /\ Len(orders[j]) = 2
    /\ orders[j][1].price = orders[j][2].price
    /\ orders[j][1].status = "executed"
    /\ orders[j][2].status = "active"
    /\ 2 \in arrival_active[j]
    /\ candle_includes_price(current_temp_candle, orders[j][2].price)

\* Some order of the list of pair j is active with its price inside
\* current_temp_candle.
SomeCrossed == \E k \in 1..Len(orders[j]) : Crossed(orders[j][k])

(***************************************************************************)
(* C14: the matching loop exits exactly in the iteration in which the      *)
(* order list is empty or holds no active order with its price inside      *)
(* current_temp_candle.  An iteration that finds no such order ends with   *)
(* executed_order false, whatever the flag was before (the remaining       *)
(* orders all inactive, the last order inactive), so the loop exits; an    *)
(* iteration that finds one executes an order and the loop goes on.        *)
(***************************************************************************)
C14_ExitIffNothingCrossed ==
    /\ [](pc = "simulate" =>
            LET s == Scan(orders[j], current_temp_candle, executed_order)
            IN /\ s.hit = 0 <=> ~SomeCrossed
               /\ s.hit = 0 => ~s.flag)
    /\ [][pc = "simulate" =>
             /\ pc' \in {"simulate", "generate"}
             /\ pc' = "generate" <=> ~SomeCrossed]_vars

\* the flag is true from the iteration before and every order of the list is
\* inactive, the last one included: the loop is about to exit
C14_Witness ==
    /\ pc = "simulate"
    /\ executed_order
    /\ Len(orders[j]) = 2
    /\ \A k \in 1..Len(orders[j]) : ~is_active(orders[j][k])
    /\ ~SomeCrossed

\* The orders of pair j that were active at some moment of the matching of
\* the current minute: active on arrival, executed by it, or active now.
EverActive ==
    arrival_active[j]
      \cup {events[n][3] : n \in FillsNow(j)}
      \cup ActiveIndexes(orders[j])

(***************************************************************************)
(* C15: _simulate_price_change_effect terminates for every candle and      *)
(* every set of orders, with fill callbacks that create finitely many      *)
(* orders: every iteration of its loop either moves exactly one order from *)
(* active to executed or exits, so it makes at most as many iterations as  *)
(* orders were ever active during the minute, plus one; a split at a price *)
(* equal to the open of the candle is no exception.                        *)
(***************************************************************************)
C15_MatchingTerminates ==
    /\ [](pc \in {"simulate", "generate"} => iterations <= Cardinality(EverActive) + 1)
    /\ [][pc = "simulate" =>
             \/ pc' = "generate" /\ orders' = orders
             \/ /\ pc' = "simulate"
                /\ Cardinality({k \in 1..Len(orders[j]) :
                                   is_active(orders[j][k]) /\ ~is_active(orders'[j][k])}) = 1
                /\ \A k \in 1..Len(orders[j]) :
                      is_active(orders[j][k]) /\ ~is_active(orders'[j][k])
                          => orders'[j][k].status = "executed"]_vars
    /\ (pc = "simulate" ~> pc = "generate")

\* a matching that has returned after a split at the open of the candle it
\* was left with: the order was created by a fill callback at the fill's price
C15_Witness ==
    /\ pc = "generate"
    /\ iterations = 3
    /\ Cardinality(FillsNow(j)) = 2
    /\ \E n \in FillsNow(j) : Open(events[n][4]) = Close(events[n][4])

(***************************************************************************)
(* C16: an order created by a fill callback during the matching of a       *)
(* minute is considered by the next iteration of the same matching loop:   *)
(* if it is active with its price inside the remainder candle (the         *)
(* current_temp_candle left by the split during which it was created) it   *)
(* is executed within that same minute, so when the matching has returned  *)
(* it is executed.                                                         *)
(***************************************************************************)
C16_CreatedOrderExecuted ==
    pc = "generate" =>
        \A n \in FillsNow(j) :
            LET created   == events[n][6]
                remainder == events[n][5]
            IN created # 0 /\ candle_includes_price(remainder, orders[j][created].price)
                  => orders[j][created].status = "executed"

\* the newest event is a fill: the state is the one MatchOrder has just left
JustFilled == Len(events) > 0 /\ events[Len(events)][1] = "fill"

(***************************************************************************)
(* C17: whenever the matching engine executes an order, at the moment      *)
(* order.execute() is invoked the tail candle of the 1m series is the      *)
(* storable piece of the split, whose close equals the order's price, the  *)
(* position's current_price equals the order's price, and                  *)
(* current_temp_candle has already been replaced by the remainder: the     *)
(* candle write and the price update precede the fill and its callbacks.   *)
(***************************************************************************)
C17_WriteAndPriceBeforeExecute ==
    JustFilled =>
        LET e         == events[Len(events)]
            p         == e[2]
            order     == orders[p][e[3]]
            storable  == e[4]
            remainder == e[5]
            seen      == e[7]
            series    == store_candles[p]["1m"]
        IN /\ order.status = "executed"
           /\ Close(storable) = order.price
           /\ seen.tail = storable
           /\ seen.current_price = order.price
           /\ seen.current_temp_candle = remainder
           /\ series[Len(series)] = storable
           /\ current_temp_candle = remainder

\* a fill whose callback submitted an order, on a candle whose storable piece
\* differs from the candle the matching iteration started with
C17_Witness ==
    /\ JustFilled
    /\ events[Len(events)][6] # 0
    /\ events[Len(events)][4] # events[Len(events)][5]
    /\ positions[events[Len(events)][2]].qty # 0

\* some market order of some pair is still active
ActiveMarketOrder ==
    \E p \in Pairs : \E k \in 1..Len(orders[p]) : IsPendingMarket(orders[p][k])

(***************************************************************************)
(* C18: every market order submitted by a strategy is executed before the  *)
(* run ends: the sweep of a minute executes those submitted in execute()   *)
(* or in a fill callback of that minute, so no market order is active at   *)
(* the end of a minute, and none is active when the final daily-balance    *)
(* snapshot has been taken, those submitted in terminate() included.       *)
(***************************************************************************)
C18_MarketOrdersExecuted ==
    pc \in {"daily", "done"} => ~ActiveMarketOrder

\* the part of C18 that the sweep of line 228 does establish
C18_SweptEveryMinute ==
    pc \in {"daily", "loop"} => ~ActiveMarketOrder

\* the route whose strategy trades pair p
RouteOf(p) == CHOOSE k \in 1..Len(Routes) : Routes[k].pair = p

\* the route whose strategy receives the callback that event e records; 0: none
CalledRoute(e) ==
    CASE e[1] = "execute" -> e[2]
      [] e[1] \in {"fill", "market_fill"} -> RouteOf(e[2])
      [] OTHER -> 0

AllInState(st) == \A k \in 1..Len(Routes) : strategy[k].state = st

(***************************************************************************)
(* C19: in every completed run, for every route, init_objects is called    *)
(* exactly once, after the strategy is constructed and before the initial  *)
(* daily-balance snapshot and the first candle; execute is called only     *)
(* between the first and the last candle; terminate is called exactly      *)
(* once, after the last minute's market-order sweep and before the final   *)
(* daily-balance snapshot, in router order; and no callback of a strategy  *)
(* is invoked after its terminate.                                         *)
(***************************************************************************)
C19_StrategyLifecycle ==
    /\ [](\A k \in 1..Len(Routes) :
             /\ strategy[k].inits <= 1
             /\ strategy[k].terminations <= 1
             /\ strategy[k].state = "none" <=> strategy[k].inits = 0
             /\ strategy[k].state = "terminated" <=> strategy[k].terminations = 1
             /\ strategy[k].state = "terminated" =>
                    /\ \A m \in 1..(k - 1) : strategy[m].state = "terminated"
                    /\ i = InputLength
                    /\ events[Len(events)] \in {<<"market_orders">>, <<"daily_balance">>})
    /\ []((daily_balance # <<>> \/ events # <<>>) => \A k \in 1..Len(Routes) : strategy[k].inits = 1)
    /\ [](pc = "done" => \A k \in 1..Len(Routes) :
                             strategy[k].inits = 1 /\ strategy[k].terminations = 1)
    /\ [][/\ (Len(daily_balance') > Len(daily_balance) =>
                  \/ AllInState("ready")
                  \/ pc = "final_balance" /\ AllInState("terminated"))
           /\ (Len(events') > Len(events) /\ CalledRoute(events'[Len(events')]) # 0 =>
                  /\ strategy[CalledRoute(events'[Len(events')])].state = "ready"
                  /\ i < InputLength
                  /\ Len(store_candles[Routes[CalledRoute(events'[Len(events')])].pair]["1m"])
                        = i + 1)]_vars

\* a completed run in which a strategy was executed and had a fill callback
C19_Witness ==
    /\ pc = "done"
    /\ AllInState("terminated")
    /\ \E k \in 1..Len(Routes) : strategy[k].executions > 0
    /\ \E n \in 1..Len(events) : events[n][1] = "fill"

(***************************************************************************)
(* C20: when simulator is called without explicit hyper_parameters, each   *)
(* route's strategy receives hyperparameters decoded from that route's own *)
(* DNA only: a route without DNA gets no hyperparameters injected, and a   *)
(* route with DNA never receives the hyperparameters decoded from another  *)
(* (earlier) route's DNA, whatever the order of the routes.                *)
(***************************************************************************)
C20_OwnDnaOnly ==
    hyper_parameters # ExplicitHp =>
        \A k \in 1..Len(Routes) :
            strategy[k].state # "none" =>
                strategy[k].hp = IF dna[k] = None THEN None ELSE dna_to_hp(dna[k])

\* the part of C20 that the code does establish: up to and including the
\* first route that carries a DNA string, every route gets its own
C20_FirstDnaRoute ==
    hyper_parameters # ExplicitHp =>
        \A k \in 1..Len(Routes) :
            strategy[k].state # "none" /\ (\A m \in 1..(k - 1) : dna[m] = None) =>
                strategy[k].hp = IF dna[k] = None THEN None ELSE dna_to_hp(dna[k])

====
